---- MODULE Spec2Model ----
\* GazeboRosDepthCamera (gazebo_plugins/src/gazebo_ros_depth_camera.cpp):
\* the connection counters, the lazy activation of the sensor and the
\* publishing done by the frame callbacks.
\*
\* Two threads run the plugin's code.  The simulation thread delivers the frame
\* callbacks (OnNewDepthFrame, OnNewRGBPointCloud, OnNewImageFrame) and
\* PublishCameraInfo; the thread that serves camera_queue_ (the callback queue the
\* publishers are advertised on, lines 112, 120, 128) runs the Connect and
\* Disconnect callbacks.  A position in the code is a pair <<function, line>>.
\* SimStep and QueueStep execute the statement at a position.  Spec runs every
\* callback to completion (one action per callback); SpecConc interleaves the two
\* threads statement by statement; SpecInfo adds the simulation clock.
EXTENDS Integers, FiniteSets, Sequences, TLC

\* ---------------------------------------------------------------- bounds
\* subscribers a channel can have at once
MaxSubs == 2
\* the simulation clock stops here
MaxTime == 3
\* sensor updates that are told apart
MaxUpdate == 1
\* the longest update period configured
MaxPeriod == 2
\* how far from zero the value of an uninitialized counter is taken
Garbage == 1
\* the widest and the highest frame that is converted
MaxSide == 2

\* width and height are unsigned: zero, or positive
Dims == {0, 2}

VARIABLES
    point_cloud_connect_count_,
    depth_image_connect_count_,
    depth_info_connect_count_,
    image_connect_count_,
    advertised_,
    point_cloud_pub_,
    depth_image_pub_,
    depth_image_camera_info_pub_,
    initialized_,
    width_,
    height_,
    active,
    lock_,
    depth_sensor_update_time_,
    sensor_update_time_,
    last_depth_image_camera_info_update_time_,
    update_period_,
    simTime,
    lastUpdateTime,
    subscribers,
    simPc,
    trPc,
    last,
    afterPointCloudConnect,
    info_calls,
    wasActive,
    out,
    advertise_calls,
    point_cloud_cutoff_,
    image_msg_,
    converted

\* The plugin's state that the callbacks work on.
pluginVars == <<point_cloud_connect_count_, depth_image_connect_count_,
          depth_info_connect_count_, image_connect_count_, advertised_,
          point_cloud_pub_, depth_image_pub_, depth_image_camera_info_pub_,
          initialized_, width_, height_, active, lock_,
          depth_sensor_update_time_, sensor_update_time_,
          last_depth_image_camera_info_update_time_, update_period_,
          simTime, lastUpdateTime, subscribers, simPc, trPc,
          last, afterPointCloudConnect, info_calls, wasActive, out,
          advertise_calls>>

\* What the converters read and build: the cutoff, the bytes of the stored
\* colour image (image_msg_.data) and, in converted, the last conversion (the
\* helper called, its depth buffer, the message it built).
convVars == <<point_cloud_cutoff_, image_msg_, converted>>

vars == <<pluginVars, convVars>>

\* The output channels whose subscribers the transport counts.
Channels == {"points", "depth", "depth_info", "image"}

\* The whole state as one record, so that a statement is a function on states.
Cur ==
    [point_cloud_connect_count_ |-> point_cloud_connect_count_,
     depth_image_connect_count_ |-> depth_image_connect_count_,
     depth_info_connect_count_ |-> depth_info_connect_count_,
     image_connect_count_ |-> image_connect_count_,
     advertised_ |-> advertised_,
     point_cloud_pub_ |-> point_cloud_pub_,
     depth_image_pub_ |-> depth_image_pub_,
     depth_image_camera_info_pub_ |-> depth_image_camera_info_pub_,
     initialized_ |-> initialized_,
     width_ |-> width_,
     height_ |-> height_,
     active |-> active,
     lock_ |-> lock_,
     depth_sensor_update_time_ |-> depth_sensor_update_time_,
     sensor_update_time_ |-> sensor_update_time_,
     last_depth_image_camera_info_update_time_ |->
         last_depth_image_camera_info_update_time_,
     update_period_ |-> update_period_,
     simTime |-> simTime,
     lastUpdateTime |-> lastUpdateTime,
     subscribers |-> subscribers,
     simPc |-> simPc,
     trPc |-> trPc,
     last |-> last,
     afterPointCloudConnect |-> afterPointCloudConnect,
     info_calls |-> info_calls,
     wasActive |-> wasActive,
     out |-> out,
     advertise_calls |-> advertise_calls]

Commit(s) ==
    /\ point_cloud_connect_count_' = s.point_cloud_connect_count_
    /\ depth_image_connect_count_' = s.depth_image_connect_count_
    /\ depth_info_connect_count_' = s.depth_info_connect_count_
    /\ image_connect_count_' = s.image_connect_count_
    /\ advertised_' = s.advertised_
    /\ point_cloud_pub_' = s.point_cloud_pub_
    /\ depth_image_pub_' = s.depth_image_pub_
    /\ depth_image_camera_info_pub_' = s.depth_image_camera_info_pub_
    /\ initialized_' = s.initialized_
    /\ width_' = s.width_
    /\ height_' = s.height_
    /\ active' = s.active
    /\ lock_' = s.lock_
    /\ depth_sensor_update_time_' = s.depth_sensor_update_time_
    /\ sensor_update_time_' = s.sensor_update_time_
    /\ last_depth_image_camera_info_update_time_' =
           s.last_depth_image_camera_info_update_time_
    /\ update_period_' = s.update_period_
    /\ simTime' = s.simTime
    /\ lastUpdateTime' = s.lastUpdateTime
    /\ subscribers' = s.subscribers
    /\ simPc' = s.simPc
    /\ trPc' = s.trPc
    /\ last' = s.last
    /\ afterPointCloudConnect' = s.afterPointCloudConnect
    /\ info_calls' = s.info_calls
    /\ wasActive' = s.wasActive
    /\ out' = s.out
    /\ advertise_calls' = s.advertise_calls
    /\ UNCHANGED convVars

\* ---------------------------------------------------------------- statements
Idle == <<"idle", 0>>

\* The log.  What a callback does that is visible outside it is collected in
\* out; last is the callback that ran last; afterPointCloudConnect says that the
\* callback before it was PointCloudConnect; wasActive is what IsActive() was
\* when last was entered; info_calls is the parity of the number of
\* PublishCameraInfo calls.
Emit(s, e) == [s EXCEPT !.out = @ \cup {e}]

\* parentSensor->SetActive(b)
SetActive(s, b) ==
    [s EXCEPT !.active = b,
              !.out = @ \cup {IF b THEN "SetActive(true)" ELSE "SetActive(false)"}]

SimGoto(s, line) == [s EXCEPT !.simPc = <<s.simPc[1], line>>]
SimReturn(s) == [s EXCEPT !.simPc = Idle]
QueueGoto(s, line) == [s EXCEPT !.trPc = <<s.trPc[1], line>>]
QueueReturn(s) == [s EXCEPT !.trPc = Idle]

\* ---- the conditions the code branches on

\* The guard without its tests of height_ and width_.
FrameGuardFails_NoSizeTest(s) == ~s.initialized_

\* lines 186, 225, 290: the guard every frame callback starts with
FrameGuardFails(s) ==
    ~s.initialized_ \/ s.height_ <= 0 \/ s.width_ <= 0

\* lines 195-197: OnNewDepthFrame's test for "nobody listens"
NoSubscribers(s) ==
    /\ s.point_cloud_connect_count_ <= 0
    /\ s.depth_image_connect_count_ <= 0
    /\ s.image_connect_count_ <= 0

\* lines 212-213: OnNewDepthFrame's test for activating an inactive sensor
DepthFrameActivates(s) ==
    s.point_cloud_connect_count_ > 0 \/ s.depth_image_connect_count_ <= 0

\* line 203 (and 234, 240): a point cloud is wanted
WantsPointCloud(s) == s.point_cloud_connect_count_ > 0

\* line 206: a depth image is wanted
WantsDepthImage(s) == s.depth_image_connect_count_ > 0

\* lines 301, 307: a colour image is wanted
WantsImage(s) == s.image_connect_count_ > 0

\* PointCloudDisconnect deactivating at every unsubscribe.
PointCloudDisconnectDeactivates_Always(s) == TRUE

\* line 149: PointCloudDisconnect's test for deactivating
PointCloudDisconnectDeactivates(s) == s.point_cloud_connect_count_ <= 0

\* line 486: somebody listens to the depth camera info
WantsDepthInfo(s) == s.depth_info_connect_count_ > 0

\* Line 490 with > for >=.
DepthInfoDue_Strict(s) ==
    s.simTime - s.last_depth_image_camera_info_update_time_ > s.update_period_

\* line 490: an update period has passed since the last depth camera info
DepthInfoDue(s) ==
    s.simTime - s.last_depth_image_camera_info_update_time_ >= s.update_period_

\* ---- the simulation thread

\* The line a frame callback continues at after "if (!advertised_) Advertise();"
AfterAdvertise(fn) ==
    CASE fn = "OnNewDepthFrame" -> 192
      [] fn = "OnNewRGBPointCloud" -> 231
      [] fn = "OnNewImageFrame" -> 297

\* lines 105-132, a statement at a time: three publishers are registered with
\* the transport, then the flag is set
Advertise(s, line) ==
    CASE line = 113 -> SimGoto([s EXCEPT !.point_cloud_pub_ = TRUE], 121)
      [] line = 121 -> SimGoto([s EXCEPT !.depth_image_pub_ = TRUE], 129)
      [] line = 129 ->
            SimGoto([s EXCEPT !.depth_image_camera_info_pub_ = TRUE], 131)
      [] line = 131 ->
            SimGoto([s EXCEPT !.advertised_ = TRUE], AfterAdvertise(s.simPc[1]))

\* Advertise() called without the test of advertised_.
AdvertiseOnce_NoFlagTest(s, next) ==
    SimGoto(Emit([s EXCEPT !.advertise_calls = IF @ < 2 THEN @ + 1 ELSE @],
                 "Advertise"), 113)

\* lines 189-190, 228-229, 293-294: if (!advertised_) Advertise();
AdvertiseOnce(s, next) ==
    IF ~s.advertised_
    THEN SimGoto(Emit([s EXCEPT !.advertise_calls =
                                    IF @ < 2 THEN @ + 1 ELSE @], "Advertise"), 113)
    ELSE SimGoto(s, next)

\* FillPointdCloud returning without the unlock of line 334.
FillPointdCloud_NoUnlock(s, line) ==
    CASE line = 316 -> SimGoto(Emit([s EXCEPT !.lock_ = "sim"], "lock"), 318)
      [] line = 318 -> SimGoto(Emit(s, "fill:points"), 332)
      [] line = 332 -> SimGoto(Emit(s, "publish:points"), 334)
      [] line = 334 -> SimGoto(s, 206)

\* lines 314-335
FillPointdCloud(s, line) ==
    CASE line = 316 -> SimGoto(Emit([s EXCEPT !.lock_ = "sim"], "lock"), 318)
      [] line = 318 -> SimGoto(Emit(s, "fill:points"), 332)
      [] line = 332 -> SimGoto(Emit(s, "publish:points"), 334)
      [] line = 334 -> SimGoto(Emit([s EXCEPT !.lock_ = "free"], "unlock"), 206)

\* lines 339-357
FillDepthImage(s, line) ==
    CASE line = 341 -> SimGoto(Emit([s EXCEPT !.lock_ = "sim"], "lock"), 343)
      [] line = 343 -> SimGoto(Emit(s, "fill:depth"), 354)
      [] line = 354 -> SimGoto(Emit(s, "publish:depth"), 356)
      [] line = 356 -> SimReturn(Emit([s EXCEPT !.lock_ = "free"], "unlock"))

\* OnNewDepthFrame without the IsActive() test of line 193: it converts and
\* publishes whether or not the sensor is active.
OnNewDepthFrameAt_NoActiveTest(s, line) ==
    CASE line = 186 -> IF FrameGuardFails(s) THEN SimReturn(s) ELSE SimGoto(s, 189)
      [] line = 189 -> AdvertiseOnce(s, 192)
      [] line = 192 ->
            SimGoto(Emit([s EXCEPT !.depth_sensor_update_time_ = s.lastUpdateTime],
                         "stamp:depth"), 193)
      [] line = 193 -> SimGoto(s, 195)
      [] line = 195 -> IF NoSubscribers(s) THEN SimGoto(s, 199) ELSE SimGoto(s, 203)
      [] line = 199 -> SimReturn(SetActive(s, FALSE))
      [] line = 203 -> IF WantsPointCloud(s) THEN SimGoto(s, 316) ELSE SimGoto(s, 206)
      [] line = 206 -> IF WantsDepthImage(s) THEN SimGoto(s, 341) ELSE SimReturn(s)
      [] line = 212 -> IF DepthFrameActivates(s) THEN SimGoto(s, 215) ELSE SimReturn(s)
      [] line = 215 -> SimReturn(SetActive(s, TRUE))

\* lines 182-217
OnNewDepthFrameAt(s, line) ==
    CASE line = 186 -> IF FrameGuardFails(s) THEN SimReturn(s) ELSE SimGoto(s, 189)
      [] line = 189 -> AdvertiseOnce(s, 192)
      [] line = 192 ->
            SimGoto(Emit([s EXCEPT !.depth_sensor_update_time_ = s.lastUpdateTime],
                         "stamp:depth"), 193)
      [] line = 193 -> IF s.active THEN SimGoto(s, 195) ELSE SimGoto(s, 212)
      [] line = 195 -> IF NoSubscribers(s) THEN SimGoto(s, 199) ELSE SimGoto(s, 203)
      [] line = 199 -> SimReturn(SetActive(s, FALSE))
      [] line = 203 -> IF WantsPointCloud(s) THEN SimGoto(s, 316) ELSE SimGoto(s, 206)
      [] line = 206 -> IF WantsDepthImage(s) THEN SimGoto(s, 341) ELSE SimReturn(s)
      [] line = 212 -> IF DepthFrameActivates(s) THEN SimGoto(s, 215) ELSE SimReturn(s)
      [] line = 215 -> SimReturn(SetActive(s, TRUE))

\* lines 221-282
OnNewRGBPointCloudAt(s, line) ==
    CASE line = 225 -> IF FrameGuardFails(s) THEN SimReturn(s) ELSE SimGoto(s, 228)
      [] line = 228 -> AdvertiseOnce(s, 231)
      [] line = 231 ->
            SimGoto(Emit([s EXCEPT !.depth_sensor_update_time_ = s.lastUpdateTime],
                         "stamp:depth"), 232)
      [] line = 232 -> IF ~s.active THEN SimGoto(s, 234) ELSE SimGoto(s, 240)
      [] line = 234 -> IF WantsPointCloud(s) THEN SimGoto(s, 236) ELSE SimReturn(s)
      [] line = 236 -> SimReturn(SetActive(s, TRUE))
      [] line = 240 -> IF WantsPointCloud(s) THEN SimGoto(s, 242) ELSE SimReturn(s)
      [] line = 242 -> SimGoto(Emit([s EXCEPT !.lock_ = "sim"], "lock"), 243)
      [] line = 243 -> SimGoto(Emit(s, "fill:points"), 278)
      [] line = 278 -> SimGoto(Emit(s, "publish:points"), 279)
      [] line = 279 -> SimReturn(Emit([s EXCEPT !.lock_ = "free"], "unlock"))

\* GazeboRosCameraUtils::PutCameraData, called at line 308: the colour image is
\* copied and published under lock_
PutCameraData(s) ==
    Emit(Emit(Emit(s, "lock"), "publish:image"), "unlock")

\* lines 286-310
OnNewImageFrameAt(s, line) ==
    CASE line = 290 -> IF FrameGuardFails(s) THEN SimReturn(s) ELSE SimGoto(s, 293)
      [] line = 293 -> AdvertiseOnce(s, 297)
      [] line = 297 ->
            SimGoto(Emit([s EXCEPT !.sensor_update_time_ = s.lastUpdateTime],
                         "stamp:image"), 299)
      [] line = 299 -> IF ~s.active THEN SimGoto(s, 301) ELSE SimGoto(s, 307)
      [] line = 301 -> IF WantsImage(s) THEN SimGoto(s, 303) ELSE SimReturn(s)
      [] line = 303 -> SimReturn(SetActive(s, TRUE))
      [] line = 307 -> IF WantsImage(s) THEN SimGoto(s, 308) ELSE SimReturn(s)
      [] line = 308 -> SimReturn(PutCameraData(s))

\* lines 481-496.  Line 484 calls GazeboRosCameraUtils::PublishCameraInfo(), the
\* generic camera info; line 492 publishes on depth_image_camera_info_pub_.
PublishCameraInfoAt(s, line) ==
    CASE line = 484 -> SimGoto(Emit(s, "publish:camera_info"), 486)
      [] line = 486 -> IF WantsDepthInfo(s) THEN SimGoto(s, 488) ELSE SimReturn(s)
      [] line = 488 ->
            SimGoto(Emit([s EXCEPT !.sensor_update_time_ = s.lastUpdateTime],
                         "stamp:image"), 490)
      [] line = 490 ->
            IF DepthInfoDue(s)
            THEN SimReturn(Emit(
                     [s EXCEPT !.last_depth_image_camera_info_update_time_ =
                                   s.simTime],
                     "publish:depth_camera_info"))
            ELSE SimReturn(s)

\* The lines that take lock_ (boost::mutex: the caller waits while it is held).
LockLines == {316, 341, 242, 308}

SimBlocked(s) == s.simPc[2] \in LockLines /\ s.lock_ # "free"

\* The statement the simulation thread is at.
SimStep(s) ==
    LET fn == s.simPc[1]
        line == s.simPc[2]
    IN  CASE line \in 105..132 -> Advertise(s, line)
          [] line \in 314..335 -> FillPointdCloud(s, line)
          [] line \in 339..357 -> FillDepthImage(s, line)
          [] fn = "OnNewDepthFrame" /\ line \in 182..217 -> OnNewDepthFrameAt(s, line)
          [] fn = "OnNewRGBPointCloud" -> OnNewRGBPointCloudAt(s, line)
          [] fn = "OnNewImageFrame" -> OnNewImageFrameAt(s, line)
          [] fn = "PublishCameraInfo" -> PublishCameraInfoAt(s, line)

\* A callback of the simulation thread run until it returns (or waits for
\* lock_): the statement it is at is executed, then the rest runs from the
\* state that statement leaves.
RECURSIVE RunSim(_)
RunSim(s) ==
    IF s.simPc = Idle \/ SimBlocked(s) THEN s
    ELSE CHOOSE r \in {RunSim(t) : t \in {SimStep(s)}} : TRUE

\* The simulation thread enters callback fn at its first line.
SimEnter(s, fn, line) ==
    [s EXCEPT !.simPc = <<fn, line>>, !.last = fn,
              !.afterPointCloudConnect = (s.last = "PointCloudConnect"),
              !.info_calls = IF fn = "PublishCameraInfo" THEN 1 - @ ELSE @,
              !.out = {}, !.wasActive = s.active]

\* ---- the thread serving camera_queue_

\* PointCloudConnect without the SetActive(true) of line 141.
PointCloudConnectAt_NoActivate(s, line) ==
    CASE line = 139 ->
            QueueGoto([s EXCEPT !.point_cloud_connect_count_ = @ + 1], 140)
      [] line = 140 -> QueueGoto([s EXCEPT !.image_connect_count_ = @ + 1], 141)
      [] line = 141 -> QueueReturn(s)

\* lines 137-142
PointCloudConnectAt(s, line) ==
    CASE line = 139 ->
            QueueGoto([s EXCEPT !.point_cloud_connect_count_ = @ + 1], 140)
      [] line = 140 -> QueueGoto([s EXCEPT !.image_connect_count_ = @ + 1], 141)
      [] line = 141 -> QueueReturn(SetActive(s, TRUE))

\* lines 145-151
PointCloudDisconnectAt(s, line) ==
    CASE line = 147 ->
            QueueGoto([s EXCEPT !.point_cloud_connect_count_ = @ - 1], 148)
      [] line = 148 -> QueueGoto([s EXCEPT !.image_connect_count_ = @ - 1], 149)
      [] line = 149 ->
            IF PointCloudDisconnectDeactivates(s) THEN QueueGoto(s, 150)
            ELSE QueueReturn(s)
      [] line = 150 -> QueueReturn(SetActive(s, FALSE))

\* lines 155-159
DepthImageConnectAt(s, line) ==
    CASE line = 157 ->
            QueueGoto([s EXCEPT !.depth_image_connect_count_ = @ + 1], 158)
      [] line = 158 -> QueueReturn(SetActive(s, TRUE))

\* DepthImageDisconnect deactivating the way PointCloudDisconnect does.
DepthImageDisconnectAt_Deactivates(s, line) ==
    CASE line = 164 ->
            IF s.depth_image_connect_count_ - 1 <= 0
            THEN QueueReturn(SetActive(
                     [s EXCEPT !.depth_image_connect_count_ = @ - 1], FALSE))
            ELSE QueueReturn([s EXCEPT !.depth_image_connect_count_ = @ - 1])

\* lines 162-165
DepthImageDisconnectAt(s, line) ==
    CASE line = 164 ->
            QueueReturn([s EXCEPT !.depth_image_connect_count_ = @ - 1])

\* lines 169-172
DepthInfoConnectAt(s, line) ==
    CASE line = 171 ->
            QueueReturn([s EXCEPT !.depth_info_connect_count_ = @ + 1])

\* lines 175-178
DepthInfoDisconnectAt(s, line) ==
    CASE line = 177 ->
            QueueReturn([s EXCEPT !.depth_info_connect_count_ = @ - 1])

\* GazeboRosCameraUtils::ImageConnect, the colour image's subscribe callback:
\* it counts the subscriber in image_connect_count_ and may activate the sensor.
\* Entered at 1 it only counts; entered at 2 it counts and activates.
ImageConnectAt(s, line) ==
    CASE line = 1 -> QueueReturn([s EXCEPT !.image_connect_count_ = @ + 1])
      [] line = 2 -> QueueGoto([s EXCEPT !.image_connect_count_ = @ + 1], 3)
      [] line = 3 -> QueueReturn(SetActive(s, TRUE))

\* GazeboRosCameraUtils::ImageDisconnect: it decrements image_connect_count_
\* and may deactivate the sensor when the count is no longer positive.
\* Entered at 1 it only counts; entered at 2 it counts and may deactivate.
ImageDisconnectAt(s, line) ==
    CASE line = 1 -> QueueReturn([s EXCEPT !.image_connect_count_ = @ - 1])
      [] line = 2 -> QueueGoto([s EXCEPT !.image_connect_count_ = @ - 1], 3)
      [] line = 3 ->
            IF s.image_connect_count_ <= 0 THEN QueueReturn(SetActive(s, FALSE))
            ELSE QueueReturn(s)

\* The statement the queue thread is at.
QueueStep(s) ==
    LET fn == s.trPc[1]
        line == s.trPc[2]
    IN  CASE fn = "PointCloudConnect" -> PointCloudConnectAt(s, line)
          [] fn = "PointCloudDisconnect" -> PointCloudDisconnectAt(s, line)
          [] fn = "DepthImageConnect" -> DepthImageConnectAt(s, line)
          [] fn = "DepthImageDisconnect" -> DepthImageDisconnectAt(s, line)
          [] fn = "DepthInfoConnect" -> DepthInfoConnectAt(s, line)
          [] fn = "DepthInfoDisconnect" -> DepthInfoDisconnectAt(s, line)
          [] fn = "ImageConnect" -> ImageConnectAt(s, line)
          [] fn = "ImageDisconnect" -> ImageDisconnectAt(s, line)

\* A callback of the queue thread run until it returns.
RECURSIVE RunQueue(_)
RunQueue(s) == IF s.trPc = Idle THEN s ELSE RunQueue(QueueStep(s))

\* The transport calls fn because a subscriber joined (d = 1) or left (d = -1)
\* channel ch.
QueueEnter(s, fn, line, ch, d) ==
    [s EXCEPT !.trPc = <<fn, line>>, !.last = fn,
              !.afterPointCloudConnect = (s.last = "PointCloudConnect"),
              !.out = {}, !.wasActive = s.active, !.subscribers[ch] = @ + d]

\* The transport calls a subscribe callback only for a registered publisher,
\* and an unsubscribe callback only for a subscriber that had joined.
CanJoin(pub, ch) == pub /\ subscribers[ch] < MaxSubs
CanLeave(ch) == subscribers[ch] > 0

\* ---------------------------------------------------------------- converters

\* Depth samples and cutoffs: a sample below, at and above a cutoff.
Depths == {0, 1, 2}
Cutoffs == {0, 1}

\* A float: a number, or std::numeric_limits<float>::quiet_NaN() (lines 405, 456).
Float(v) == [nan |-> FALSE, v |-> v]
NaN == [nan |-> TRUE, v |-> 0]

\* The cutoff test with >= for >.
PassesCutoff_Inclusive(depth, cutoff) == depth >= cutoff

\* lines 399, 468: depth > this->point_cloud_cutoff_
PassesCutoff(depth, cutoff) == depth > cutoff

\* lines 383-384, 389-390: tan(atan2(k - 0.5 * (n - 1), fl)) is
\* (k - 0.5 * (n - 1)) / fl; kept here multiplied by 2 * fl, which is positive.
\* With n = 1 the angle is 0.
TanAngle(k, n) == IF n > 1 THEN 2 * k - (n - 1) ELSE 0

\* lines 409-433: the colour of the point of pixel (i, j), from the bytes of
\* the stored colour image (image_src[k] is image[k + 1])
ColourOf(i, j, rows_arg, cols_arg, image) ==
    IF Len(image) = rows_arg * cols_arg * 3
    THEN [r |-> image[i * 3 + j * cols_arg * 3 + 0 + 1],
          g |-> image[i * 3 + j * cols_arg * 3 + 1 + 1],
          b |-> image[i * 3 + j * cols_arg * 3 + 2 + 1]]
    ELSE IF Len(image) = rows_arg * cols_arg
    THEN [r |-> image[i + j * cols_arg + 1],
          g |-> image[i + j * cols_arg + 1],
          b |-> image[i + j * cols_arg + 1]]
    ELSE [r |-> 0, g |-> 0, b |-> 0]

\* lines 392-433: the point of pixel (i, j) with depth sample depth
PointOf(depth, i, j, rows_arg, cols_arg, cutoff, image) ==
    LET rgb == ColourOf(i, j, rows_arg, cols_arg, image)
    IN  IF PassesCutoff(depth, cutoff)
        THEN [x |-> Float(depth * TanAngle(i, cols_arg)),
              y |-> Float(depth * TanAngle(j, rows_arg)),
              z |-> Float(depth),
              r |-> rgb.r, g |-> rgb.g, b |-> rgb.b]
        ELSE [x |-> NaN, y |-> NaN, z |-> NaN,
              r |-> rgb.r, g |-> rgb.g, b |-> rgb.b]

\* Line 410 evaluates image_msg_.data[0] for every pixel, also when the vector
\* is empty: operator[] beyond the size is undefined; a build whose library
\* checks the index (checked) stops the program there, another build goes on.
Line410Stops(image, checked) == Len(image) = 0 /\ checked

\* A conversion that did not return.
Stopped == [done |-> FALSE, points |-> <<>>, is_dense |-> TRUE]

\* The conversion of lines 361-440 with the loops of lines 254-258: columns
\* outside, rows inside, the sample of pixel (i, j) read at j * cols_arg + i.
FillPointCloudHelper_ColumnMajor(rows_arg, cols_arg, data_arg, cutoff, image, checked) ==
    LET RECURSIVE Loop(_, _, _, _)
        Loop(points, is_dense, i, j) ==
            IF i >= cols_arg
            THEN [done |-> TRUE, points |-> points, is_dense |-> is_dense]
            ELSE IF j >= rows_arg THEN Loop(points, is_dense, i + 1, 0)
            ELSE IF Line410Stops(image, checked) THEN Stopped
            ELSE LET depth == data_arg[j * cols_arg + i + 1]
                 IN  Loop(Append(points,
                                 PointOf(depth, i, j, rows_arg, cols_arg,
                                         cutoff, image)),
                          is_dense /\ PassesCutoff(depth, cutoff), i, j + 1)
    IN  Loop(<<>>, TRUE, 0, 0)

\* lines 361-440: the point cloud of a depth buffer.  points starts empty and
\* is_dense true (368-369); rows outside, columns inside (378, 384); the
\* sample is toCopyFrom[index++] (390); the point is pushed back (435).
FillPointCloudHelper(rows_arg, cols_arg, data_arg, cutoff, image, checked) ==
    LET RECURSIVE Loop(_, _, _, _, _)
        Loop(points, is_dense, index, j, i) ==
            IF j >= rows_arg
            THEN [done |-> TRUE, points |-> points, is_dense |-> is_dense]
            ELSE IF i >= cols_arg THEN Loop(points, is_dense, index, j + 1, 0)
            ELSE IF Line410Stops(image, checked) THEN Stopped
            ELSE LET depth == data_arg[index + 1]
                 IN  Loop(Append(points,
                                 PointOf(depth, i, j, rows_arg, cols_arg,
                                         cutoff, image)),
                          is_dense /\ PassesCutoff(depth, cutoff),
                          index + 1, j, i + 1)
    IN  Loop(<<>>, TRUE, 0, 0, 0)

\* lines 443-479: the depth image of a depth buffer.  The data are resized to
\* rows * cols floats (453), then dest[i + j * cols_arg] is written for every
\* pixel from toCopyFrom[index++] (466-475).
FillDepthImageHelper(rows_arg, cols_arg, data_arg, cutoff) ==
    LET RECURSIVE Loop(_, _, _, _)
        Loop(dest, index, j, i) ==
            IF j >= rows_arg
            THEN [done |-> TRUE, height |-> rows_arg, width |-> cols_arg,
                  step |-> 4 * cols_arg, data |-> dest]
            ELSE IF i >= cols_arg THEN Loop(dest, index, j + 1, 0)
            ELSE LET depth == data_arg[index + 1]
                 IN  Loop([dest EXCEPT ![i + j * cols_arg + 1] =
                               IF PassesCutoff(depth, cutoff) THEN Float(depth)
                               ELSE NaN],
                          index + 1, j, i + 1)
    IN  Loop([k \in 1..(rows_arg * cols_arg) |-> Float(0)], 0, 0, 0)

\* Nothing converted yet.
NoConversion == [fn |-> "none", data_arg |-> <<>>, msg |-> [done |-> FALSE]]

\* The bytes of a colour image of n bytes; every position has its own value.
ImageBytes(n) == [k \in 1..n |-> (37 * (k - 1) + 11) % 256]

\* Bytes a pixel of the colour image takes: mono, 16-bit mono, RGB.
BytesPerPixel == {1, 2, 3}

\* ---------------------------------------------------------------- initial state

\* Constructor (lines 46-52) and Load (lines 62-103).  The constructor sets
\* point_cloud_connect_count_, depth_info_connect_count_, the last depth camera
\* info time and advertised_; it does not set depth_image_connect_count_, whose
\* first value is whatever the memory holds.  Width and height are unsigned.
\* Load reads the cutoff (lines 97-100); no colour image is stored yet and
\* nothing has been converted.
Loaded(periods, dims, cutoffs) ==
    /\ point_cloud_connect_count_ = 0
    /\ depth_info_connect_count_ = 0
    /\ last_depth_image_camera_info_update_time_ = 0
    /\ advertised_ = FALSE
    /\ depth_image_connect_count_ \in (0 - Garbage)..Garbage
    /\ image_connect_count_ = 0
    /\ point_cloud_pub_ = FALSE
    /\ depth_image_pub_ = FALSE
    /\ depth_image_camera_info_pub_ = FALSE
    /\ initialized_ = FALSE
    /\ width_ \in dims
    /\ height_ \in dims
    /\ active \in BOOLEAN
    /\ lock_ = "free"
    /\ depth_sensor_update_time_ = 0
    /\ sensor_update_time_ = 0
    /\ update_period_ \in periods
    /\ simTime = 0
    /\ lastUpdateTime = 0
    /\ subscribers = [ch \in Channels |-> 0]
    /\ simPc = Idle
    /\ trPc = Idle
    /\ last = "Load"
    /\ afterPointCloudConnect = FALSE
    /\ info_calls = 0
    /\ wasActive = active
    /\ out = {}
    /\ advertise_calls = 0
    /\ point_cloud_cutoff_ \in cutoffs
    /\ image_msg_ = <<>>
    /\ converted = NoConversion

\* The cutoff is only read by the converters.
Configured(periods) == Loaded(periods, Dims, {0})

\* update_period_ is only read by PublishCameraInfo.
Init == Configured({0})

InitInfo == Configured(0..MaxPeriod)

\* ---------------------------------------------------------------- environment

BothIdle == simPc = Idle /\ trPc = Idle

\* GazeboRosCameraUtils finishes loading on its own thread and sets initialized_.
FinishLoad(s) ==
    [s EXCEPT !.initialized_ = TRUE, !.last = "LoadThread",
              !.afterPointCloudConnect = FALSE, !.out = {},
              !.wasActive = s.active]

LoadThread ==
    /\ ~initialized_
    /\ Commit(FinishLoad(Cur))

\* The world's clock advances (world_->GetSimTime()).
Tick ==
    /\ simTime < MaxTime
    /\ Commit([Cur EXCEPT !.simTime = @ + 1])

\* The sensor renders (parentSensor->GetLastUpdateTime()), not before the
\* world's clock.
SensorUpdate ==
    /\ lastUpdateTime < MaxUpdate
    /\ Commit([Cur EXCEPT !.lastUpdateTime = @ + 1,
                          !.simTime = IF @ > lastUpdateTime THEN @
                                      ELSE lastUpdateTime + 1])

\* ---------------------------------------------------------------- whole callbacks

OnNewDepthFrame ==
    /\ BothIdle
    /\ Commit(RunSim(SimEnter(Cur, "OnNewDepthFrame", 186)))

OnNewRGBPointCloud ==
    /\ BothIdle
    /\ Commit(RunSim(SimEnter(Cur, "OnNewRGBPointCloud", 225)))

OnNewImageFrame ==
    /\ BothIdle
    /\ Commit(RunSim(SimEnter(Cur, "OnNewImageFrame", 290)))

PublishCameraInfo ==
    /\ BothIdle
    /\ Commit(RunSim(SimEnter(Cur, "PublishCameraInfo", 484)))

PointCloudConnect ==
    /\ BothIdle
    /\ CanJoin(point_cloud_pub_, "points")
    /\ Commit(RunQueue(QueueEnter(Cur, "PointCloudConnect", 139, "points", 1)))

PointCloudDisconnect ==
    /\ BothIdle
    /\ CanLeave("points")
    /\ Commit(RunQueue(QueueEnter(Cur, "PointCloudDisconnect", 147, "points", -1)))

DepthImageConnect ==
    /\ BothIdle
    /\ CanJoin(depth_image_pub_, "depth")
    /\ Commit(RunQueue(QueueEnter(Cur, "DepthImageConnect", 157, "depth", 1)))

DepthImageDisconnect ==
    /\ BothIdle
    /\ CanLeave("depth")
    /\ Commit(RunQueue(QueueEnter(Cur, "DepthImageDisconnect", 164, "depth", -1)))

DepthInfoConnect ==
    /\ BothIdle
    /\ CanJoin(depth_image_camera_info_pub_, "depth_info")
    /\ Commit(RunQueue(QueueEnter(Cur, "DepthInfoConnect", 171, "depth_info", 1)))

DepthInfoDisconnect ==
    /\ BothIdle
    /\ CanLeave("depth_info")
    /\ Commit(RunQueue(QueueEnter(Cur, "DepthInfoDisconnect", 177, "depth_info", -1)))

ImageConnect ==
    /\ BothIdle
    /\ CanJoin(initialized_, "image")
    /\ \E entry \in {1, 2} :
           Commit(RunQueue(QueueEnter(Cur, "ImageConnect", entry, "image", 1)))

ImageDisconnect ==
    /\ BothIdle
    /\ CanLeave("image")
    /\ \E entry \in {1, 2} :
           Commit(RunQueue(QueueEnter(Cur, "ImageDisconnect", entry, "image", -1)))

Next ==
    \/ LoadThread
    \/ SensorUpdate
    \/ OnNewDepthFrame
    \/ OnNewRGBPointCloud
    \/ OnNewImageFrame
    \/ PointCloudConnect
    \/ PointCloudDisconnect
    \/ DepthImageConnect
    \/ DepthImageDisconnect
    \/ DepthInfoConnect
    \/ DepthInfoDisconnect
    \/ ImageConnect
    \/ ImageDisconnect

Spec == Init /\ [][Next]_vars

\* The camera info: the clock, the depth camera info's subscribers and
\* PublishCameraInfo (OnNewDepthFrame registers the publisher).
NextInfo ==
    \/ LoadThread
    \/ Tick
    \/ SensorUpdate
    \/ OnNewDepthFrame
    \/ DepthInfoConnect
    \/ DepthInfoDisconnect
    \/ PublishCameraInfo

SpecInfo == InitInfo /\ [][NextInfo]_vars

\* ---------------------------------------------------------------- two threads

\* The log describes whole callbacks; between the statements of two threads it
\* describes nothing and is not kept.
Unlogged(s) ==
    [s EXCEPT !.last = "Load", !.afterPointCloudConnect = FALSE,
              !.info_calls = 0, !.wasActive = FALSE, !.out = {}]

\* The simulation thread enters a callback.
SimCall(fn, line) ==
    /\ simPc = Idle
    /\ Commit(Unlogged(SimEnter(Cur, fn, line)))

\* The simulation thread executes the statement it is at.
SimStatement ==
    /\ simPc # Idle
    /\ ~SimBlocked(Cur)
    /\ Commit(Unlogged(SimStep(Cur)))

\* The queue thread enters a callback.
QueueCall(fn, line, ch, d) ==
    /\ trPc = Idle
    /\ Commit(Unlogged(QueueEnter(Cur, fn, line, ch, d)))

\* The queue thread executes the statement it is at.
QueueStatement ==
    /\ trPc # Idle
    /\ Commit(Unlogged(QueueStep(Cur)))

NextConc ==
    \/ ~initialized_ /\ Commit(Unlogged(FinishLoad(Cur)))
    \/ SimCall("OnNewDepthFrame", 186)
    \/ SimCall("OnNewRGBPointCloud", 225)
    \/ SimCall("OnNewImageFrame", 290)
    \/ SimCall("PublishCameraInfo", 484)
    \/ SimStatement
    \/ CanJoin(point_cloud_pub_, "points")
           /\ QueueCall("PointCloudConnect", 139, "points", 1)
    \/ CanLeave("points") /\ QueueCall("PointCloudDisconnect", 147, "points", -1)
    \/ CanJoin(depth_image_pub_, "depth")
           /\ QueueCall("DepthImageConnect", 157, "depth", 1)
    \/ CanLeave("depth") /\ QueueCall("DepthImageDisconnect", 164, "depth", -1)
    \/ CanJoin(depth_image_camera_info_pub_, "depth_info")
           /\ QueueCall("DepthInfoConnect", 171, "depth_info", 1)
    \/ CanLeave("depth_info")
           /\ QueueCall("DepthInfoDisconnect", 177, "depth_info", -1)
    \/ CanJoin(initialized_, "image")
           /\ \E entry \in {1, 2} : QueueCall("ImageConnect", entry, "image", 1)
    \/ CanLeave("image")
           /\ \E entry \in {1, 2} : QueueCall("ImageDisconnect", entry, "image", -1)
    \/ QueueStatement

SpecConc == Init /\ [][NextConc]_vars

\* ---------------------------------------------------------------- conversions

\* The frames the guard of the frame callbacks lets through (width and height
\* positive), every cutoff; the callbacks' own state plays no part.
InitConv ==
    /\ Loaded({0}, 1..MaxSide, Cutoffs)
    /\ depth_image_connect_count_ = 0
    /\ ~active

\* GazeboRosCameraUtils::PutCameraData keeps the colour frame in image_msg_.
StoreImage ==
    /\ \E bpp \in BytesPerPixel :
           image_msg_' = ImageBytes(width_ * height_ * bpp)
    /\ converted' = NoConversion
    /\ UNCHANGED <<pluginVars, point_cloud_cutoff_>>

\* FillPointdCloud's call of line 326, for every depth buffer of the frame's
\* size and either kind of build.  One conversion is recorded at a time: the
\* next one is looked at from the state StoreImage leaves.
ConvertPointCloud ==
    /\ converted = NoConversion
    /\ \E data_arg \in [1..(width_ * height_) -> Depths], checked \in BOOLEAN :
           converted' =
               [fn |-> "FillPointCloudHelper", data_arg |-> data_arg,
                msg |-> FillPointCloudHelper(height_, width_, data_arg,
                                             point_cloud_cutoff_, image_msg_,
                                             checked)]
    /\ UNCHANGED <<pluginVars, point_cloud_cutoff_, image_msg_>>

\* FillDepthImage's call of line 348, for every depth buffer of the frame's size.
ConvertDepthImage ==
    /\ converted = NoConversion
    /\ \E data_arg \in [1..(width_ * height_) -> Depths] :
           converted' =
               [fn |-> "FillDepthImageHelper", data_arg |-> data_arg,
                msg |-> FillDepthImageHelper(height_, width_, data_arg,
                                             point_cloud_cutoff_)]
    /\ UNCHANGED <<pluginVars, point_cloud_cutoff_, image_msg_>>

NextConv ==
    \/ StoreImage
    \/ ConvertPointCloud
    \/ ConvertDepthImage

SpecConv == InitConv /\ [][NextConv]_vars

\* ---------------------------------------------------------------- properties

FrameCallbacks == {"OnNewDepthFrame", "OnNewRGBPointCloud", "OnNewImageFrame"}

Publishes ==
    {"publish:points", "publish:depth", "publish:image",
     "publish:depth_camera_info"}

\* The guard of the frame callbacks lets the callback through.
Configured_ok == initialized_ /\ height_ > 0 /\ width_ > 0

\* C1: a point cloud is built and published only while
\* point_cloud_connect_count_ > 0 and a depth image only while
\* depth_image_connect_count_ > 0, at the moment of the fill and of the publish
\* call, whatever the queue thread does meanwhile.
C1_PublishOnlyWhileSubscribed ==
    /\ simPc[2] \in {318, 332, 243, 278} => point_cloud_connect_count_ > 0
    /\ simPc[2] \in {343, 354} => depth_image_connect_count_ > 0

\* C2: PointCloudDisconnect does not deactivate the sensor while another
\* channel's counter is still positive.
C2_DeactivatesOnlyAsLastChannel ==
    (/\ last = "PointCloudDisconnect"
     /\ \/ depth_image_connect_count_ > 0
        \/ depth_info_connect_count_ > 0
        \/ image_connect_count_ > 0)
    => "SetActive(false)" \notin out

\* C3: a frame callback entered with the sensor inactive requests activation
\* exactly when the point-cloud counter is positive or, in OnNewImageFrame, the
\* image counter is positive.  (Stated for the runs in which the uninitialized
\* depth_image_connect_count_ happened to start at 0.)
C3_ActivationOnlyForSubscribers ==
    (/\ last \in FrameCallbacks /\ ~wasActive /\ Configured_ok
     /\ depth_image_connect_count_ = subscribers["depth"])
    => ("SetActive(true)" \in out
        <=> \/ point_cloud_connect_count_ > 0
            \/ last = "OnNewImageFrame" /\ image_connect_count_ > 0)

\* C4: OnNewDepthFrame entered with the sensor active deactivates it and
\* publishes nothing when no channel has a subscriber; otherwise it does not
\* deactivate, and publishes the point cloud exactly when its counter is
\* positive and the depth image exactly when its counter is positive.  (Stated
\* for the runs in which depth_image_connect_count_ happened to start at 0.)
C4_ActiveDepthFrame ==
    (/\ last = "OnNewDepthFrame" /\ wasActive /\ Configured_ok
     /\ depth_image_connect_count_ = subscribers["depth"])
    => IF /\ point_cloud_connect_count_ <= 0
          /\ depth_image_connect_count_ <= 0
          /\ depth_info_connect_count_ <= 0
          /\ image_connect_count_ <= 0
       THEN "SetActive(false)" \in out /\ out \cap Publishes = {}
       ELSE /\ "SetActive(false)" \notin out
            /\ "publish:points" \in out <=> point_cloud_connect_count_ > 0
            /\ "publish:depth" \in out <=> depth_image_connect_count_ > 0

\* Only the point cloud has a subscriber, one, and the counters say so.
OnlyPointCloudSubscribed ==
    /\ subscribers = [ch \in Channels |-> IF ch = "points" THEN 1 ELSE 0]
    /\ point_cloud_connect_count_ = 1
    /\ image_connect_count_ = 1
    /\ depth_image_connect_count_ = 0
    /\ depth_info_connect_count_ = 0

\* C5 as claimed: with the point cloud's first subscriber just counted (0 -> 1,
\* nothing else subscribed), the first frame callback after the subscribe
\* requests activation and publishes nothing; and once the count is back at 0
\* with no other subscriber, deactivation has been requested.
C5_ActivationOnFirstFrame ==
    /\ (afterPointCloudConnect /\ last \in FrameCallbacks
            /\ OnlyPointCloudSubscribed)
       => ("SetActive(true)" \in out /\ out \cap Publishes = {})
    /\ (last = "PointCloudDisconnect" /\ point_cloud_connect_count_ = 0
            /\ \A ch \in Channels : subscribers[ch] = 0)
       => "SetActive(false)" \in out

\* C5 as amended: PointCloudConnect itself requests activation; the first frame
\* callback after the subscribe finds the sensor active, requests no
\* activation and, when it is OnNewDepthFrame or OnNewRGBPointCloud, publishes
\* the point cloud in that same invocation; PointCloudDisconnect requests
\* deactivation once the count is back at 0.
C5_ActivationOnSubscribe ==
    /\ last = "PointCloudConnect" => ("SetActive(true)" \in out /\ active)
    /\ (afterPointCloudConnect /\ last \in FrameCallbacks)
       => (wasActive /\ "SetActive(true)" \notin out)
    /\ (afterPointCloudConnect
            /\ last \in {"OnNewDepthFrame", "OnNewRGBPointCloud"})
       => "publish:points" \in out
    /\ (last = "PointCloudDisconnect" /\ point_cloud_connect_count_ <= 0)
       => ("SetActive(false)" \in out /\ ~active)

\* The 0 -> 1 subscribe of the scenario, then OnNewDepthFrame, which published.
C5_Witness ==
    /\ afterPointCloudConnect
    /\ last = "OnNewDepthFrame"
    /\ OnlyPointCloudSubscribed
    /\ out = {"stamp:depth", "lock", "fill:points", "publish:points", "unlock"}

\* C6: when the last subscriber of a channel has left (N subscribes, then N
\* unsubscribes), the channel's counter is 0 again, and after the point cloud's
\* round trip image_connect_count_ is what the colour image's subscribers
\* alone account for.
C6_RoundTrip ==
    /\ (last = "PointCloudDisconnect" /\ subscribers["points"] = 0)
       => /\ point_cloud_connect_count_ = 0
          /\ image_connect_count_ = subscribers["image"]
    /\ (last = "DepthImageDisconnect" /\ subscribers["depth"] = 0)
       => depth_image_connect_count_ = 0
    /\ (last = "DepthInfoDisconnect" /\ subscribers["depth_info"] = 0)
       => depth_info_connect_count_ = 0

\* The Connect and Disconnect callbacks that Advertise registers.
OwnCallbacks ==
    {"PointCloudConnect", "PointCloudDisconnect", "DepthImageConnect",
     "DepthImageDisconnect", "DepthInfoConnect", "DepthInfoDisconnect"}

\* The lines at which a message is handed to a publisher (332, 354, 278; 308
\* calls PutCameraData; the statement at 490 publishes at 492).
PublishLines == {332, 354, 278, 308, 490}

\* C7 as claimed: Advertise runs at most once, no publish happens while
\* advertised_ is false, and no Connect or Disconnect callback runs while
\* advertised_ is false.
C7_NothingBeforeAdvertised ==
    /\ advertise_calls <= 1
    /\ simPc[2] \in PublishLines => advertised_
    /\ trPc[1] \in OwnCallbacks => advertised_

\* C7 as amended: Advertise runs at most once and has set advertised_ before
\* any publish; a Connect or Disconnect callback runs only once Advertise has
\* registered the publisher of its channel, and it runs with advertised_ still
\* false only while the one Advertise call is between registering that
\* publisher and setting the flag (lines 113 to 131).
C7_AdvertiseOnceThenCallbacks ==
    /\ advertise_calls <= 1
    /\ simPc[2] \in PublishLines => advertised_
    /\ trPc[1] \in {"PointCloudConnect", "PointCloudDisconnect"}
       => point_cloud_pub_
    /\ trPc[1] \in {"DepthImageConnect", "DepthImageDisconnect"}
       => depth_image_pub_
    /\ trPc[1] \in {"DepthInfoConnect", "DepthInfoDisconnect"}
       => depth_image_camera_info_pub_
    /\ (trPc[1] \in OwnCallbacks /\ ~advertised_)
       => (advertise_calls = 1 /\ simPc[2] \in {121, 129, 131})

\* PointCloudConnect runs while Advertise has yet to set advertised_.
C7_Witness ==
    /\ trPc = <<"PointCloudConnect", 140>>
    /\ simPc[2] = 129
    /\ ~advertised_
    /\ point_cloud_connect_count_ = 1

\* C8: DepthImageDisconnect, the callback of a subscriber leaving the depth
\* image, decrements depth_image_connect_count_ by one and does nothing else:
\* no SetActive, the other counters, advertised_, the publishers, the lock and
\* the stored times stay as they are.
C8_DepthImageDisconnectOnlyCounts ==
    [][subscribers'["depth"] = subscribers["depth"] - 1
       => /\ last' = "DepthImageDisconnect"
          /\ depth_image_connect_count_' = depth_image_connect_count_ - 1
          /\ out' = {}
          /\ UNCHANGED <<active, point_cloud_connect_count_,
                         depth_info_connect_count_, image_connect_count_,
                         advertised_, point_cloud_pub_, depth_image_pub_,
                         depth_image_camera_info_pub_, lock_,
                         depth_sensor_update_time_, sensor_update_time_,
                         last_depth_image_camera_info_update_time_>>]_vars

\* The depth image's last subscriber has left, nobody else listens, every
\* counter is 0 and the sensor is still active.
C8_Witness ==
    /\ last = "DepthImageDisconnect"
    /\ \A ch \in Channels : subscribers[ch] = 0
    /\ point_cloud_connect_count_ = 0
    /\ depth_image_connect_count_ = 0
    /\ depth_info_connect_count_ = 0
    /\ image_connect_count_ = 0
    /\ active

\* C9: a frame callback that finds the plugin not initialized, or a width or
\* height that is not positive, returns with no effect: no Advertise, no
\* SetActive, no publish, no lock taken, no stored update time changed.
C9_SafeSkip ==
    [][(/\ last' \in FrameCallbacks
        /\ UNCHANGED <<simTime, lastUpdateTime, initialized_>>
        /\ (~initialized_ \/ height_ <= 0 \/ width_ <= 0))
       => /\ out' = {}
          /\ UNCHANGED <<advertised_, advertise_calls, point_cloud_pub_,
                         depth_image_pub_, depth_image_camera_info_pub_,
                         active, lock_, depth_sensor_update_time_,
                         sensor_update_time_,
                         last_depth_image_camera_info_update_time_,
                         point_cloud_connect_count_,
                         depth_image_connect_count_,
                         depth_info_connect_count_, image_connect_count_,
                         subscribers>>]_vars

\* A frame callback has run before initialization, after the sensor's update
\* time had moved on: the stored time was not updated, nothing was advertised.
C9_Witness ==
    /\ last \in FrameCallbacks
    /\ ~initialized_
    /\ width_ > 0 /\ height_ > 0
    /\ lastUpdateTime > depth_sensor_update_time_
    /\ lastUpdateTime > sensor_update_time_
    /\ ~advertised_
    /\ out = {}

\* C10: a call of PublishCameraInfo publishes the depth camera info exactly
\* when depth_info_connect_count_ > 0 and the simulation time is at least
\* update_period_ past the last depth camera info; the time of the last depth
\* camera info becomes the current time then and stays otherwise (so two depth
\* camera infos in a row are at least update_period_ apart); the generic
\* camera info is published in every call.
C10_DepthInfoRateLimit ==
    [][info_calls' # info_calls
       => LET due ==
                  /\ depth_info_connect_count_ > 0
                  /\ simTime - last_depth_image_camera_info_update_time_
                         >= update_period_
          IN  /\ last' = "PublishCameraInfo"
              /\ "publish:camera_info" \in out'
              /\ "publish:depth_camera_info" \in out' <=> due
              /\ last_depth_image_camera_info_update_time_' =
                     IF due THEN simTime
                     ELSE last_depth_image_camera_info_update_time_
              /\ UNCHANGED <<simTime, update_period_,
                             depth_info_connect_count_>>]_vars

\* A call that the period held back: a subscriber is there, a depth camera info
\* went out before, less than update_period_ ago.
C10_Witness ==
    /\ last = "PublishCameraInfo"
    /\ depth_info_connect_count_ > 0
    /\ last_depth_image_camera_info_update_time_ > 0
    /\ simTime > last_depth_image_camera_info_update_time_
    /\ out = {"publish:camera_info", "stamp:image"}

\* C11: every connection counter is a non-negative integer in every reachable
\* state.
C11_CountersNonNegative ==
    /\ point_cloud_connect_count_ >= 0
    /\ depth_image_connect_count_ >= 0
    /\ depth_info_connect_count_ >= 0
    /\ image_connect_count_ >= 0

\* What a frame callback does to convert a frame and hand it to a publisher.
ConvertsOrPublishes ==
    {"fill:points", "fill:depth", "lock", "unlock"} \cup Publishes

\* C12: a frame callback that finds the sensor inactive converts nothing and
\* publishes nothing in that invocation, whatever the counters are, and does
\* not deactivate: it at most requests activation.  So a frame callback that
\* publishes found the sensor active.
C12_OneTickLatency ==
    /\ (last \in FrameCallbacks /\ ~wasActive)
       => /\ out \cap ConvertsOrPublishes = {}
          /\ "SetActive(false)" \notin out
          /\ out \subseteq {"Advertise", "stamp:depth", "stamp:image",
                             "SetActive(true)"}
    /\ (last \in FrameCallbacks /\ out \cap ConvertsOrPublishes # {})
       => wasActive

\* OnNewImageFrame found the sensor inactive with a subscriber counted: it
\* asked for activation and published nothing.
C12_Witness ==
    /\ last = "OnNewImageFrame"
    /\ ~wasActive
    /\ image_connect_count_ > 0
    /\ subscribers["image"] > 0
    /\ active
    /\ out = {"stamp:image", "SetActive(true)"}

\* The statements of the simulation thread that read a counter, with the
\* counters they read (lines 195-197 and 212-213 are one condition each).
ReadsAt(line) ==
    CASE line = 195 -> {"point_cloud", "depth_image", "image"}
      [] line = 203 -> {"point_cloud"}
      [] line = 206 -> {"depth_image"}
      [] line = 212 -> {"point_cloud", "depth_image"}
      [] line \in {234, 240} -> {"point_cloud"}
      [] line \in {301, 307} -> {"image"}
      [] line = 486 -> {"depth_info"}
      [] OTHER -> {}

\* The statements of the queue thread that write a counter.
WritesAt(pc) ==
    CASE pc[2] \in {139, 147} -> {"point_cloud"}
      [] pc[2] \in {140, 148} -> {"image"}
      [] pc[2] \in {157, 164} -> {"depth_image"}
      [] pc[2] \in {171, 177} -> {"depth_info"}
      [] pc[1] \in {"ImageConnect", "ImageDisconnect"} /\ pc[2] \in {1, 2} ->
            {"image"}
      [] OTHER -> {}

\* C13: no counter is read by one thread in the middle of the other thread's
\* update of it: the simulation thread is never at a read of a counter while
\* the queue thread is at a write of that counter, unless one of them holds
\* lock_ (no Connect or Disconnect callback ever takes it).
C13_CountersUnderLock ==
    ReadsAt(simPc[2]) \cap WritesAt(trPc) # {} => lock_ # "free"

\* The statements between a lock_.lock() and its lock_.unlock(): the fill, the
\* publish and the unlock of FillPointdCloud (318-334), of FillDepthImage
\* (343-356) and of OnNewRGBPointCloud (243-279).
LockedRegion == {318, 332, 334, 343, 354, 356, 243, 278, 279}

\* C14: lock_ is held by the simulation thread exactly while it is between a
\* lock() and the matching unlock(): the outputs are filled and published only
\* under lock_, and whenever a frame callback has returned, by whatever path,
\* lock_ is free.
C14_LockScopedToFillAndPublish ==
    /\ lock_ \in {"free", "sim"}
    /\ lock_ = "sim" <=> simPc[2] \in LockedRegion
    /\ simPc = Idle => lock_ = "free"

\* OnNewDepthFrame has published the point cloud and released the lock, and is
\* about to take it again for the depth image.
C14_Witness ==
    /\ simPc = <<"OnNewDepthFrame", 341>>
    /\ lock_ = "free"
    /\ trPc = Idle
    /\ point_cloud_connect_count_ > 0
    /\ depth_image_connect_count_ > 0
    /\ active

\* The pixels of the frame, columns i and rows j.
Columns == 0..(width_ - 1)
Rows == 0..(height_ - 1)

\* The point cloud helper ran and returned a message.
PointCloudBuilt ==
    converted.fn = "FillPointCloudHelper" /\ converted.msg.done

\* The depth image helper ran and returned a message.
DepthImageBuilt ==
    converted.fn = "FillDepthImageHelper" /\ converted.msg.done

\* C15: in both converters, a sample above the cutoff keeps its depth (the
\* point's z, the depth image's pixel) and a sample at or below the cutoff
\* becomes not-a-number (the point's x, y and z, the pixel); the point cloud is
\* dense exactly when every sample is above the cutoff.
C15_StrictCutoff ==
    /\ PointCloudBuilt
       => /\ \A k \in 1..(width_ * height_) :
                 LET d == converted.data_arg[k]
                     p == converted.msg.points[k]
                 IN  IF d > point_cloud_cutoff_
                     THEN p.z = Float(d) /\ ~p.x.nan /\ ~p.y.nan
                     ELSE p.x = NaN /\ p.y = NaN /\ p.z = NaN
          /\ converted.msg.is_dense
             <=> \A k \in 1..(width_ * height_) :
                     converted.data_arg[k] > point_cloud_cutoff_
    /\ DepthImageBuilt
       => \A k \in 1..(width_ * height_) :
              LET d == converted.data_arg[k]
              IN  converted.msg.data[k] =
                      IF d > point_cloud_cutoff_ THEN Float(d) ELSE NaN

\* A point cloud of a frame with a sample exactly at the cutoff and a sample
\* above it: the first is not-a-number, the second kept, the cloud not dense.
C15_Witness ==
    /\ PointCloudBuilt
    /\ point_cloud_cutoff_ = 1
    /\ converted.data_arg = <<1, 2>>
    /\ converted.msg.points[1].z = NaN
    /\ converted.msg.points[2].z = Float(2)
    /\ ~converted.msg.is_dense

\* C16: the point sequence of a W x H depth buffer has W * H points, whatever
\* the number of invalid ones, rows outside and columns inside: the point at
\* position j * W + i is the point of pixel (i, j), built from sample j * W + i.
C16_RowMajorAllPoints ==
    PointCloudBuilt
    => /\ Len(converted.msg.points) = width_ * height_
       /\ \A j \in Rows : \A i \in Columns :
              LET d == converted.data_arg[j * width_ + i + 1]
                  p == converted.msg.points[j * width_ + i + 1]
              IN  IF d > point_cloud_cutoff_
                  THEN /\ p.z = Float(d)
                       /\ p.x = Float(d * TanAngle(i, width_))
                       /\ p.y = Float(d * TanAngle(j, height_))
                  ELSE p.x = NaN /\ p.y = NaN /\ p.z = NaN

\* A 2 x 2 frame whose samples differ between the rows and between the
\* columns, one of them invalid: four points, each from its own sample.
C16_Witness ==
    /\ PointCloudBuilt
    /\ width_ = 2 /\ height_ = 2
    /\ point_cloud_cutoff_ = 0
    /\ converted.data_arg = <<1, 2, 0, 1>>
    /\ Len(converted.msg.points) = 4
    /\ converted.msg.points[2].z = Float(2)
    /\ converted.msg.points[3].z = NaN

\* C17: colouring a point never fails.  With W * H * 3 bytes stored the
\* point of pixel (i, j) has the bytes at i * 3 + j * W * 3 + 0, 1, 2; with
\* W * H bytes it has the byte at i + j * W three times; with any other number
\* of bytes, none included, it is black; and every conversion returns all
\* W * H points.
C17_ColouringNeverFails ==
    converted.fn = "FillPointCloudHelper"
    => /\ converted.msg.done
       /\ Len(converted.msg.points) = width_ * height_
       /\ \A j \in Rows : \A i \in Columns :
              LET p == converted.msg.points[j * width_ + i + 1]
                  n == Len(image_msg_)
                  W == width_
                  H == height_
              IN  IF n = W * H * 3
                  THEN /\ p.r = image_msg_[i * 3 + j * W * 3 + 0 + 1]
                       /\ p.g = image_msg_[i * 3 + j * W * 3 + 1 + 1]
                       /\ p.b = image_msg_[i * 3 + j * W * 3 + 2 + 1]
                  ELSE IF n = W * H
                  THEN /\ p.r = image_msg_[i + j * W + 1]
                       /\ p.g = p.r /\ p.b = p.r
                  ELSE p.r = 0 /\ p.g = 0 /\ p.b = 0

\* Depth frames and the subscribers of the point cloud and of the depth image,
\* the callbacks one at a time.
NextLive ==
    \/ LoadThread
    \/ SensorUpdate
    \/ OnNewDepthFrame
    \/ PointCloudConnect
    \/ PointCloudDisconnect
    \/ DepthImageConnect
    \/ DepthImageDisconnect

\* The simulator goes on delivering depth frames (a frame that changes nothing
\* is a stuttering step), and the plugin finishes loading.
SpecLive ==
    Init /\ [][NextLive]_vars /\ WF_vars(OnNewDepthFrame) /\ WF_vars(LoadThread)

\* Every counter is zero.
AllCountersZero ==
    /\ point_cloud_connect_count_ = 0
    /\ depth_image_connect_count_ = 0
    /\ depth_info_connect_count_ = 0
    /\ image_connect_count_ = 0

\* C18: once every counter is zero for good and only depth frames arrive (the
\* guard letting them through), the sensor is eventually inactive and stays
\* inactive: no later depth frame activates it again.
C18_SettlesInactive ==
    <>[](Configured_ok /\ AllCountersZero /\ last = "OnNewDepthFrame")
    => <>[](~active)

\* C19: once the depth image's counter is positive for good (its subscribers
\* counted from 0) and only depth frames arrive, depth images go on being
\* published.
C19_DepthImageEventuallyPublished ==
    <>[](/\ Configured_ok
         /\ depth_image_connect_count_ > 0
         /\ depth_image_connect_count_ = subscribers["depth"]
         /\ last = "OnNewDepthFrame")
    => []<>("publish:depth" \in out)

\* C20: between callbacks that run one at a time, subscribers leaving only
\* after they joined, a positive point-cloud counter means an active sensor.
C20_PointCloudSubscribedIsActive ==
    point_cloud_connect_count_ > 0 => active

\* Of two point-cloud subscribers one has left: the counter is still positive
\* and PointCloudDisconnect left the sensor active.
C20_Witness ==
    /\ last = "PointCloudDisconnect"
    /\ point_cloud_connect_count_ = 1
    /\ subscribers["points"] = 1
    /\ out = {}
    /\ active

====
